---- MODULE Spec2Model ----
(***************************************************************************)
(* A model of the meter monitoring core of ibilik-tracker: the snapshot    *)
(* entity (data_model.py), the delta engine and the anomaly detector       *)
(* (calculations.py), the meter tracker (tracker.py), the snapshot table  *)
(* (database.py) and the polling loop with its signal handler (main.py).   *)
(*                                                                         *)
(* Python values are records tagged by their type in field t.  A number    *)
(* is [t, h, b, u] and stands for  h * 2^1024 + b * 2^53 + u : the two     *)
(* symbolic weights are where a double stops being exact (2^53) and where  *)
(* float() of an int overflows (2^1024), so that int arithmetic (exact,    *)
(* componentwise) and double arithmetic (rounded) can be told apart        *)
(* without leaving the integers a model checker can count with.           *)
(***************************************************************************)
EXTENDS Integers, Sequences, FiniteSets, TLC

\* ------------------------------------------------------------------ values

None == [t |-> "none"]
PyInt(n) == [t |-> "int", h |-> 0, b |-> 0, u |-> n]
PyFloat(n) == [t |-> "float", h |-> 0, b |-> 0, u |-> n]
PyBool(x) == [t |-> "bool", h |-> 0, b |-> 0, u |-> IF x THEN 1 ELSE 0]
PyStr(s) == [t |-> "str", s |-> s]
Dict == [t |-> "dict"]
List == [t |-> "list"]
\* 2^53 + n as an int, and 2^1024 as an int
BigInt(n) == [t |-> "int", h |-> 0, b |-> 1, u |-> n]
HugeInt == [t |-> "int", h |-> 1, b |-> 0, u |-> 0]
\* what an operator yields when the Python code raises
OverflowError == [t |-> "raise", exc |-> "OverflowError"]
TypeError == [t |-> "raise", exc |-> "TypeError"]
AttributeError == [t |-> "raise", exc |-> "AttributeError"]
ProgrammingError == [t |-> "raise", exc |-> "ProgrammingError"]

Raises(x) == "exc" \in DOMAIN x

\* str(e) of an exception: its message, or for lack of one its type
StrOf(e) == IF "msg" \in DOMAIN e THEN e.msg ELSE e.exc

\* isinstance(v, (int, float)): bool is a subclass of int
IsNumeric(v) == v.t \in {"int", "float", "bool"}

\* the sign of the number h*2^1024 + b*2^53 + u (|u| << 2^53, |b| << 2^971)
Sign(v) ==
    IF v.h # 0 THEN (IF v.h > 0 THEN 1 ELSE -1)
    ELSE IF v.b # 0 THEN (IF v.b > 0 THEN 1 ELSE -1)
    ELSE IF v.u # 0 THEN (IF v.u > 0 THEN 1 ELSE -1)
    ELSE 0

Neg(v) == [v EXCEPT !.h = 0 - v.h, !.b = 0 - v.b, !.u = 0 - v.u]

\* abs(v)
Abs(v) == IF Sign(v) < 0 THEN Neg(v) ELSE v

\* a == b on numbers: by value, whatever the types (5 == 5.0)
NumEq(x, y) == x.h = y.h /\ x.b = y.b /\ x.u = y.u

\* x < n and x > n for a number x and a small integer n
NumLess(x, n) == Sign([x EXCEPT !.u = x.u - n]) < 0
NumGreater(x, n) == Sign([x EXCEPT !.u = x.u - n]) > 0

\* The double nearest to 2^53 + n for n >= 0 is 2^53 + RoundEven(n): doubles
\* in [2^53, 2^54) are the even integers, and a tie goes to the even
\* mantissa (n = 1 mod 4 rounds down, n = 3 mod 4 rounds up).
RoundEven(n) ==
    IF n % 2 = 0 THEN n
    ELSE IF n % 4 = 1 THEN n - 1 ELSE n + 1

\* the double nearest to the real number b * 2^53 + u, for |b| <= 1
RoundDouble(b, u) ==
    IF b = 1 /\ u >= 0 THEN [t |-> "float", h |-> 0, b |-> 1, u |-> RoundEven(u)]
    ELSE IF b = -1 /\ u <= 0 THEN [t |-> "float", h |-> 0, b |-> -1, u |-> 0 - RoundEven(0 - u)]
    ELSE [t |-> "float", h |-> 0, b |-> b, u |-> u]

\* float(v) of a number: OverflowError for an int of 2^1024 or more
ToFloat(v) ==
    IF v.h # 0 THEN OverflowError
    ELSE RoundDouble(v.b, v.u)

\* x - y on two doubles
FloatSub(x, y) == RoundDouble(x.b - y.b, x.u - y.u)

\* Python's x - y on two numbers: exact on ints (and bools), and the double
\* difference of the operands converted to double as soon as one is a float
PySub(x, y) ==
    IF x.t # "float" /\ y.t # "float"
    THEN [t |-> "int", h |-> x.h - y.h, b |-> x.b - y.b, u |-> x.u - y.u]
    ELSE IF Raises(ToFloat(x)) \/ Raises(ToFloat(y)) THEN OverflowError
    ELSE FloatSub(ToFloat(x), ToFloat(y))

\* ---------------------------------------------------------------- snapshot

\* dict.get(key): None for a missing key
Get(d, k) == IF k \in DOMAIN d THEN d[k] ELSE None

\* the empty dict
EmptyDict == [k \in {} |-> None]

\* MeterSnapshot(meter_id=...): the dataclass with its field defaults
MeterSnapshot(meter_id) ==
    [meter_id |-> meter_id,
     meter_name |-> None,
     raw_data |-> EmptyDict,
     current_reading_delta |-> None,
     balance_unit_delta |-> None,
     warning_at_unit |-> None,
     is_online |-> None,
     poll_successful |-> TRUE,
     error_message |-> None]

\* _compute_deltas with the operands of both subtractions exchanged
compute_deltas_swapped(self, previous) ==
    LET current_reading == Get(self.raw_data, "current_reading")
        prev_reading == Get(previous.raw_data, "current_reading")
        balance_unit == Get(self.raw_data, "balance_unit")
        prev_balance == Get(previous.raw_data, "balance_unit")
    IN  [self EXCEPT
            !.current_reading_delta =
                IF IsNumeric(current_reading) /\ IsNumeric(prev_reading)
                THEN PySub(prev_reading, current_reading) ELSE @,
            !.balance_unit_delta =
                IF IsNumeric(balance_unit) /\ IsNumeric(prev_balance)
                THEN PySub(prev_balance, balance_unit) ELSE @]

\* MeterSnapshot._compute_deltas: self after the call.  A delta is assigned
\* only when both raw values are numeric; otherwise the field keeps the
\* value it had.  The reading is assigned before the balance is computed.
compute_deltas(self, previous) ==
    LET current_reading == Get(self.raw_data, "current_reading")
        prev_reading == Get(previous.raw_data, "current_reading")
        balance_unit == Get(self.raw_data, "balance_unit")
        prev_balance == Get(previous.raw_data, "balance_unit")
        rd == IF IsNumeric(current_reading) /\ IsNumeric(prev_reading)
              THEN PySub(current_reading, prev_reading)
              ELSE self.current_reading_delta
        bd == IF IsNumeric(balance_unit) /\ IsNumeric(prev_balance)
              THEN PySub(balance_unit, prev_balance)
              ELSE self.balance_unit_delta
    IN  IF Raises(rd) THEN rd
        ELSE IF Raises(bd) THEN bd
        ELSE [self EXCEPT !.current_reading_delta = rd,
                          !.balance_unit_delta = bd]

\* a payload that is a JSON object: a function from its keys, while a value
\* of any other type is a record with the type tag t
IsDict(v) == "t" \notin DOMAIN v

\* MeterSnapshot.from_api_response: previous_snapshot is a snapshot or None.
\* api_response.get of a payload that is not a dict raises AttributeError.
from_api_response(meter_id, api_response, previous_snapshot) ==
    IF ~IsDict(api_response) THEN AttributeError
    ELSE
    LET snapshot == [MeterSnapshot(meter_id) EXCEPT
                        !.meter_name = Get(api_response, "name"),
                        !.raw_data = api_response,
                        !.warning_at_unit = Get(api_response, "warning_at_unit"),
                        !.is_online = Get(api_response, "is_online")]
    IN  IF previous_snapshot # None
        THEN compute_deltas(snapshot, previous_snapshot)
        ELSE snapshot

\* create_error_snapshot without the error_message argument passed on
create_error_snapshot_no_message(meter_id, error_message) ==
    [MeterSnapshot(meter_id) EXCEPT !.poll_successful = FALSE]

\* MeterSnapshot.create_error_snapshot
create_error_snapshot(meter_id, error_message) ==
    [MeterSnapshot(meter_id) EXCEPT !.poll_successful = FALSE,
                                    !.error_message = PyStr(error_message)]

\* MeterSnapshot.get_current_reading / get_balance_unit: float(value) of a
\* numeric raw value, None otherwise
get_current_reading(self) ==
    LET value == Get(self.raw_data, "current_reading")
    IN  IF IsNumeric(value) THEN ToFloat(value) ELSE None

get_balance_unit(self) ==
    LET value == Get(self.raw_data, "balance_unit")
    IN  IF IsNumeric(value) THEN ToFloat(value) ELSE None

\* ----------------------------------------------------------------- tracker

\* MeterTracker.get_previous_snapshot: self._previous_snapshots.get(meter_id)
get_previous_snapshot(ps, meter_id) == Get(ps, meter_id)

\* update_meter_state without the poll_successful test before the store
update_meter_state_stores_failed(ps, snapshot) ==
    LET meter_id == snapshot.meter_id
        previous_snapshot == Get(ps, meter_id)
        computed == IF previous_snapshot # None /\ snapshot.poll_successful
                    THEN compute_deltas(snapshot, previous_snapshot)
                    ELSE snapshot
    IN  [snapshot |-> computed,
         previous_snapshots |->
            [k \in DOMAIN ps \cup {meter_id} |->
                IF k = meter_id THEN computed ELSE ps[k]]]

\* an update that installs a baseline only for a meter that has none
update_meter_state_keeps_first(ps, snapshot) ==
    [snapshot |-> snapshot,
     previous_snapshots |->
        IF snapshot.poll_successful /\ snapshot.meter_id \notin DOMAIN ps
        THEN [k \in DOMAIN ps \cup {snapshot.meter_id} |->
                  IF k = snapshot.meter_id THEN snapshot ELSE ps[k]]
        ELSE ps]

\* MeterTracker.update_meter_state on the dict ps: the snapshot returned
\* (the argument, mutated in place) and the dict after the call
update_meter_state(ps, snapshot) ==
    LET meter_id == snapshot.meter_id
        previous_snapshot == Get(ps, meter_id)
        computed == IF previous_snapshot # None /\ snapshot.poll_successful
                    THEN compute_deltas(snapshot, previous_snapshot)
                    ELSE snapshot
    IN  IF Raises(computed)
        THEN [snapshot |-> computed, previous_snapshots |-> ps]
        ELSE [snapshot |-> computed,
              previous_snapshots |->
                  IF snapshot.poll_successful
                  THEN [k \in DOMAIN ps \cup {meter_id} |->
                            IF k = meter_id THEN computed ELSE ps[k]]
                  ELSE ps]

\* remove_meter that only logs
remove_meter_keeps_entry(ps, meter_id) == ps

\* remove_meter that clears the whole dict
remove_meter_clears_all(ps, meter_id) == EmptyDict

\* MeterTracker.remove_meter: the dict after the call
remove_meter(ps, meter_id) ==
    IF meter_id \in DOMAIN ps
    THEN [k \in DOMAIN ps \ {meter_id} |-> ps[k]]
    ELSE ps

\* MeterTracker.get_tracked_meters, as a set
get_tracked_meters(ps) == DOMAIN ps

\* ------------------------------------------------------------ calculations

\* compute_reading_delta returning 0.0 where it has no delta to give
compute_reading_delta_zero(current_value, previous_value) ==
    IF IsNumeric(current_value) /\ IsNumeric(previous_value)
    THEN IF Raises(ToFloat(current_value)) \/ Raises(ToFloat(previous_value))
         THEN None
         ELSE FloatSub(ToFloat(current_value), ToFloat(previous_value))
    ELSE PyFloat(0)

\* MeterCalculations.compute_reading_delta: float(current) - float(previous)
\* when both are int or float; None otherwise, and None when a conversion
\* raises (the except clause catches OverflowError)
compute_reading_delta(current_value, previous_value) ==
    IF IsNumeric(current_value) /\ IsNumeric(previous_value)
    THEN IF Raises(ToFloat(current_value)) \/ Raises(ToFloat(previous_value))
         THEN None
         ELSE FloatSub(ToFloat(current_value), ToFloat(previous_value))
    ELSE None

\* MeterCalculations.compute_balance_delta: the same code on the balances
compute_balance_delta(current_balance, previous_balance) ==
    IF IsNumeric(current_balance) /\ IsNumeric(previous_balance)
    THEN IF Raises(ToFloat(current_balance)) \/ Raises(ToFloat(previous_balance))
         THEN None
         ELSE FloatSub(ToFloat(current_balance), ToFloat(previous_balance))
    ELSE None

\* the fixed threshold of the extreme-delta checks
Threshold == 1000

\* the comparison with >= for >
exceeds_threshold_or_equal(delta) == ~NumLess(Abs(delta), Threshold)

\* abs(delta) > 1000, the test of both extreme-delta checks
exceeds_threshold(delta) == NumGreater(Abs(delta), Threshold)

\* snapshot.is_online(): is_online is a dataclass field, not a method; the
\* call evaluates the field and calls its value.  No value a field holds
\* (None, a bool, a number, a str, a dict, a list) is callable.
is_online(self) ==
    IF self.is_online.t \in {"none", "bool", "int", "float", "str", "dict", "list"}
    THEN TypeError
    ELSE self.is_online

\* d[k] = v on a dict
Put(d, k, v) == [x \in DOMAIN d \cup {k} |-> IF x = k THEN v ELSE d[x]]

\* the non-monotonic check without its test of previous_snapshot
check_non_monotonic_without_previous(anomalies, snapshot, previous_snapshot) ==
    LET rd == snapshot.current_reading_delta
    IN  IF rd # None /\ NumLess(rd, 0)
        THEN Put(anomalies, "non_monotonic_reading",
                 [current |-> get_current_reading(snapshot),
                  previous |-> IF previous_snapshot = None THEN None
                               ELSE get_current_reading(previous_snapshot),
                  delta |-> rd])
        ELSE anomalies

\* detect_anomalies, the check for readings that go backwards
check_non_monotonic(anomalies, snapshot, previous_snapshot) ==
    LET rd == snapshot.current_reading_delta
    IN  IF previous_snapshot # None /\ rd # None /\ NumLess(rd, 0)
        THEN Put(anomalies, "non_monotonic_reading",
                 [current |-> get_current_reading(snapshot),
                  previous |-> get_current_reading(previous_snapshot),
                  delta |-> rd])
        ELSE anomalies

\* detect_anomalies after its test of poll_successful: the four checks
detect_checks(snapshot, previous_snapshot) ==
    LET rd == snapshot.current_reading_delta
        bd == snapshot.balance_unit_delta
        a1 == check_non_monotonic(EmptyDict, snapshot, previous_snapshot)
        a2 == IF rd # None /\ exceeds_threshold(rd)
              THEN Put(a1, "extreme_reading_delta",
                       [delta |-> rd, threshold |-> Threshold])
              ELSE a1
        a3 == IF bd # None /\ exceeds_threshold(bd)
              THEN Put(a2, "extreme_balance_delta",
                       [delta |-> bd, threshold |-> Threshold])
              ELSE a2
    IN  IF previous_snapshot # None
        THEN LET current_online == is_online(snapshot)
                 previous_online == is_online(previous_snapshot)
             IN  IF Raises(current_online) THEN current_online
                 ELSE IF Raises(previous_online) THEN previous_online
                 ELSE IF current_online # previous_online
                 THEN Put(a3, "connectivity_change",
                          [from |-> previous_online, to |-> current_online])
                 ELSE a3
        ELSE a3

\* detect_anomalies without the early return for a failed poll
detect_anomalies_on_failed_polls(snapshot, previous_snapshot) ==
    detect_checks(snapshot, previous_snapshot)

\* MeterCalculations.detect_anomalies: the dict returned, or the exception
\* raised.  previous_snapshot is a snapshot or None.
detect_anomalies(snapshot, previous_snapshot) ==
    IF ~snapshot.poll_successful THEN EmptyDict
    ELSE detect_checks(snapshot, previous_snapshot)

\* MeterTracker.get_meter_stats on the dict ps: None for an untracked meter,
\* else the dict of the statistics, or the exception that the evaluation of
\* one of its items raises (they are evaluated in the order written)
get_meter_stats(ps, meter_id) ==
    LET previous == get_previous_snapshot(ps, meter_id)
    IN  IF previous = None THEN None
        ELSE LET last_reading == get_current_reading(previous)
                 last_balance == get_balance_unit(previous)
                 online == is_online(previous)
             IN  IF Raises(last_reading) THEN last_reading
                 ELSE IF Raises(last_balance) THEN last_balance
                 ELSE IF Raises(online) THEN online
                 ELSE [meter_id |-> meter_id,
                       meter_name |-> previous.meter_name,
                       last_reading |-> last_reading,
                       last_balance |-> last_balance,
                       is_online |-> online]

\* ------------------------------------------------- calculations: statistics

\* x < y on two numbers: Python compares an int with a float by value
Less(x, y) == Sign([h |-> x.h - y.h, b |-> x.b - y.b, u |-> x.u - y.u]) < 0

\* min(values) and max(values) of a non-empty list: the first of the
\* smallest, the first of the largest
PyMin(values) ==
    LET least == {k \in 1..Len(values) : \A j \in 1..Len(values) : ~Less(values[j], values[k])}
    IN  values[CHOOSE k \in least : \A j \in least : k <= j]

PyMax(values) ==
    LET most == {k \in 1..Len(values) : \A j \in 1..Len(values) : ~Less(values[k], values[j])}
    IN  values[CHOOSE k \in most : \A j \in most : k <= j]

\* x + y on two numbers below 2^53: exact on ints, a float as soon as one
\* operand is a float
PyAdd(x, y) ==
    IF x.t # "float" /\ y.t # "float"
    THEN [t |-> "int", h |-> x.h + y.h, b |-> x.b + y.b, u |-> x.u + y.u]
    ELSE IF Raises(ToFloat(x)) \/ Raises(ToFloat(y)) THEN OverflowError
    ELSE RoundDouble(x.b + y.b, x.u + y.u)

\* sum(values): 0 + values[1] + ... from the left
RECURSIVE PySum(_)
PySum(values) ==
    IF values = <<>> THEN PyInt(0)
    ELSE PyAdd(PySum(SubSeq(values, 1, Len(values) - 1)), values[Len(values)])

RECURSIVE Gcd(_, _)
Gcd(a, b) == IF b = 0 THEN a ELSE Gcd(b, a % b)

\* x / n for a number x below 2^53 in size and a count n > 0: always a
\* float; one that is not an integer is the double nearest to num / den,
\* held as that fraction in lowest terms.  An int of 2^1024 or more cannot
\* be divided into a float.
TrueDiv(x, n) ==
    IF x.h # 0 THEN OverflowError
    ELSE IF x.u % n = 0 THEN PyFloat(x.u \div n)
    ELSE LET g == Gcd(n, x.u % n)
         IN  [t |-> "float", num |-> x.u \div g, den |-> n \div g]

\* [s for s in snapshots if s.poll_successful] without the condition
successful_snapshots_unfiltered(snapshots) == snapshots

\* [s for s in snapshots if s.poll_successful]
successful_snapshots(snapshots) == SelectSeq(snapshots, LAMBDA s : s.poll_successful)

\* [f(s) for s in successful if f(s) is not None] with None kept as 0
present_values_none_as_zero(values) ==
    [k \in 1..Len(values) |-> IF values[k] = None THEN PyInt(0) ELSE values[k]]

\* [f(s) for s in successful if f(s) is not None], values being the f(s)
present_values(values) == SelectSeq(values, LAMBDA v : v # None)

\* the exception that leaves such a comprehension: that of the first f(s)
\* that raises, None when none does
first_raised(values) ==
    LET raised == {k \in 1..Len(values) : Raises(values[k])}
    IN  IF raised = {} THEN None
        ELSE values[CHOOSE k \in raised : \A j \in raised : k <= j]

\* the dict under reading_stats and balance_stats
value_stats(values) ==
    [min |-> PyMin(values), max |-> PyMax(values), current |-> values[Len(values)]]

\* the dict under reading_delta_stats and balance_delta_stats
delta_stats(deltas) ==
    [total_change |-> PySum(deltas),
     average_change |-> TrueDiv(PySum(deltas), Len(deltas)),
     min_delta |-> PyMin(deltas),
     max_delta |-> PyMax(deltas)]

\* stats[key] = value when the list the value is made of is not empty
PutIf(stats, values, key, value) ==
    IF values # <<>> THEN Put(stats, key, value) ELSE stats

\* MeterCalculations.compute_statistics: the dict returned, or the exception
compute_statistics(meter_id, snapshots) ==
    IF snapshots = <<>>
    THEN [meter_id |-> meter_id, error |-> PyStr("No snapshots provided")]
    ELSE
    LET successful == successful_snapshots(snapshots)
        times == [k \in 1..Len(successful) |-> PyInt(successful[k].local_timestamp)]
        reading_values == [k \in 1..Len(successful) |-> get_current_reading(successful[k])]
        balance_values == [k \in 1..Len(successful) |-> get_balance_unit(successful[k])]
        readings == present_values(reading_values)
        balances == present_values(balance_values)
        reading_deltas == present_values(
            [k \in 1..Len(successful) |-> successful[k].current_reading_delta])
        balance_deltas == present_values(
            [k \in 1..Len(successful) |-> successful[k].balance_unit_delta])
        stats == [meter_id |-> meter_id,
                  total_snapshots |-> PyInt(Len(snapshots)),
                  successful_snapshots |-> PyInt(Len(successful)),
                  success_rate |-> TrueDiv(PyInt(Len(successful)), Len(snapshots)),
                  time_range |-> [start |-> PyMin(times), end |-> PyMax(times)]]
    IN  IF successful = <<>>
        THEN [meter_id |-> meter_id, error |-> PyStr("No successful snapshots")]
        ELSE IF first_raised(reading_values) # None THEN first_raised(reading_values)
        ELSE IF first_raised(balance_values) # None THEN first_raised(balance_values)
        ELSE PutIf(PutIf(PutIf(PutIf(stats,
                readings, "reading_stats", value_stats(readings)),
                balances, "balance_stats", value_stats(balances)),
                reading_deltas, "reading_delta_stats", delta_stats(reading_deltas)),
                balance_deltas, "balance_delta_stats", delta_stats(balance_deltas))

\* --------------------------------------------- calculations: validation

\* a string whose text matters is the sequence of its characters
Text(chars) == [t |-> "str", s |-> chars]

Digits == <<"0", "1", "2", "3", "4", "5", "6", "7", "8", "9">>
IsDigit(c) == \E d \in 1..10 : Digits[d] = c
DigitValue(c) == (CHOOSE d \in 1..10 : Digits[d] = c) - 1

\* str.strip(): without the white space at both ends
RECURSIVE strip(_)
strip(chars) ==
    IF chars = <<>> THEN chars
    ELSE IF Head(chars) = " " THEN strip(Tail(chars))
    ELSE IF chars[Len(chars)] = " " THEN strip(SubSeq(chars, 1, Len(chars) - 1))
    ELSE chars

\* the number a sequence of digits writes
RECURSIVE DecimalValue(_)
DecimalValue(chars) ==
    IF chars = <<>> THEN 0
    ELSE 10 * DecimalValue(SubSeq(chars, 1, Len(chars) - 1))
            + DigitValue(chars[Len(chars)])

ValueError == [t |-> "raise", exc |-> "ValueError"]

\* float(chars) of a text that is a decimal integer with or without sign, or
\* is no number at all: the float, or ValueError
float_of_text(chars) ==
    LET signed == chars # <<>> /\ Head(chars) \in {"-", "+"}
        digits == IF signed THEN Tail(chars) ELSE chars
    IN  IF digits = <<>> \/ \E k \in 1..Len(digits) : ~IsDigit(digits[k])
        THEN ValueError
        ELSE IF signed /\ Head(chars) = "-"
        THEN PyFloat(0 - DecimalValue(digits))
        ELSE PyFloat(DecimalValue(digits))

\* MeterCalculations.validate_numeric_field: the float, None, or the
\* exception that the except clause (ValueError, TypeError) lets through.
\* isinstance(value, (int, float)) holds of a bool.
validate_numeric_field(value) ==
    LET converted == IF IsNumeric(value) THEN ToFloat(value)
                     ELSE IF value.t = "str" THEN float_of_text(strip(value.s))
                     ELSE None
    IN  IF Raises(converted) /\ converted.exc \in {"ValueError", "TypeError"}
        THEN None
        ELSE converted

\* ------------------------------------------------------------------ state

VARIABLES
    previous_snapshots, \* MeterTracker._previous_snapshots: dict meter_id -> snapshot
    call,               \* the last tracker operation: its argument and what it returned
    installed,          \* history: per meter, the snapshot returned by the last
                        \* successful update since the last remove (None if none)
    calc,               \* the last call of a function that is checked by itself
    running,            \* MeterMonitor.running
    pc,                 \* per monitoring task: where its coroutine stands
    must_cancel,        \* per monitoring task: cancel() was called and the
                        \* CancelledError is not yet delivered
    executing,          \* the task whose coroutine the event loop is running,
                        \* "none" between two steps of the loop
    frame,              \* per monitoring task: meter_data, snapshot and e
    polls,              \* per monitoring task: the fetches it has started
    database,           \* the rows of the table meter_snapshots, in rowid order
    journal,            \* history: per row, the task, the poll and the step
                        \* whose failure the row records ("none" for a success)
                        \* and the value of running when it was written
    last_fetch,         \* history: per task, the poll of its last fetch, how
                        \* the fetch ended (None or the exception) and the
                        \* baseline the tracker held for its meter at that time
    selected_meters,    \* the argument of start_monitoring: per task, the
                        \* meter_id of the meter it monitors
    main,               \* where the coroutine start_monitoring stands
    system_metadata     \* the keys of the table system_metadata

trackerVars == <<previous_snapshots, call, installed>>
runVars == <<selected_meters, main, system_metadata>>
loopVars == <<running, pc, must_cancel, executing, frame, polls, database,
              journal, last_fetch, selected_meters, main, system_metadata>>
vars == <<previous_snapshots, call, installed, calc, running, pc, must_cancel,
          executing, frame, polls, database, journal, last_fetch,
          selected_meters, main, system_metadata>>

\* ---------------------------------------------------------------- domains

Meters == {"m1", "m2"}

\* a key the payload does not carry
Missing == [t |-> "missing"]

\* the payload {"current_reading": r, "balance_unit": b}, without the keys
\* whose value is Missing
Response(r, b) ==
    [k \in (IF r = Missing THEN {} ELSE {"current_reading"})
           \cup (IF b = Missing THEN {} ELSE {"balance_unit"}) |->
        IF k = "current_reading" THEN r ELSE b]

\* Meter m1 is polled with every combination of these raw values; m2, which
\* is there for what an operation on one meter does to another, with two.
Readings == {PyInt(100), PyInt(150), PyInt(80), PyStr("5")}
Balances == {PyFloat(5), PyInt(8), Missing}
ApiResponses == {Response(r, b) : r \in Readings, b \in Balances}
OtherResponses == {Response(PyInt(100), Missing), Response(PyStr("5"), PyInt(8))}
ResponsesOf(m) == IF m = "m1" THEN ApiResponses ELSE OtherResponses
ErrorMessages == {"Authentication failed"}

\* what a caller may hand to from_api_response as the previous snapshot:
\* nothing, or a snapshot of any payload (the tracked one or a stale one)
PreviousChoices(m) ==
    {None} \cup {from_api_response(m, resp, None) : resp \in ResponsesOf(m)}

\* the snapshots a caller may hand to update_meter_state for meter m
UpdateArgs(m) ==
    {from_api_response(m, resp, p) : resp \in ResponsesOf(m), p \in PreviousChoices(m)}
    \cup {create_error_snapshot(m, e) : e \in ErrorMessages}

AllUpdateArgs == UNION {UpdateArgs(m) : m \in Meters}

NoCall == [op |-> "none"]

\* ---------------------------------------------------------- tracker actions

TrackerInit ==
    /\ previous_snapshots = EmptyDict
    /\ call = NoCall
    /\ installed = [m \in Meters |-> None]

\* the object that was the tracked baseline, after update_meter_state: the
\* call and _compute_deltas assign attributes of the argument only, so the
\* baseline is written exactly when it is the argument itself
baseline_after_update(previous, returned, same_object) ==
    IF same_object THEN returned ELSE previous

\* tracker.update_meter_state(snapshot), and detect_anomalies on the snapshot
\* returned and the baseline the tracker held before the call; same_object
\* tells that the argument is the object the tracker holds, baseline_written
\* that the object that was the baseline is not as it was before the call
UpdateCall(snapshot, same_object) ==
    LET r == update_meter_state(previous_snapshots, snapshot)
        previous == get_previous_snapshot(previous_snapshots, snapshot.meter_id)
    IN  /\ previous_snapshots' = r.previous_snapshots
        /\ call' = [op |-> "update", arg |-> snapshot, ret |-> r.snapshot,
                    detected |-> detect_anomalies(r.snapshot, previous),
                    same_object |-> same_object,
                    baseline_written |->
                        baseline_after_update(previous, r.snapshot, same_object)
                            # previous]
        /\ installed' = IF snapshot.poll_successful
                        THEN [installed EXCEPT ![snapshot.meter_id] = r.snapshot]
                        ELSE installed
        /\ UNCHANGED <<calc, loopVars>>

\* update_meter_state with a snapshot object the tracker does not hold
UpdateMeterState(snapshot) == UpdateCall(snapshot, FALSE)

\* update_meter_state called again with the object the tracker holds for m
\* (the snapshot an earlier update returned)
UpdateTracked(m) ==
    /\ m \in DOMAIN previous_snapshots
    /\ UpdateCall(previous_snapshots[m], TRUE)

\* tracker.remove_meter(m)
RemoveMeter(m) ==
    /\ previous_snapshots' = remove_meter(previous_snapshots, m)
    /\ call' = [op |-> "remove", meter_id |-> m]
    /\ installed' = [installed EXCEPT ![m] = None]
    /\ UNCHANGED <<calc, loopVars>>

\* tracker.get_previous_snapshot(m)
GetPreviousSnapshot(m) ==
    /\ call' = [op |-> "previous", meter_id |-> m,
                ret |-> get_previous_snapshot(previous_snapshots, m)]
    /\ UNCHANGED <<previous_snapshots, installed, calc, loopVars>>

\* tracker.get_tracked_meters()
GetTrackedMeters ==
    /\ call' = [op |-> "tracked", ret |-> get_tracked_meters(previous_snapshots)]
    /\ UNCHANGED <<previous_snapshots, installed, calc, loopVars>>

\* tracker.get_meter_stats(m)
GetMeterStats(m) ==
    /\ call' = [op |-> "stats", meter_id |-> m,
                ret |-> get_meter_stats(previous_snapshots, m)]
    /\ UNCHANGED <<previous_snapshots, installed, calc, loopVars>>

TrackerNext ==
    \/ \E s \in AllUpdateArgs : UpdateMeterState(s)
    \/ \E m \in Meters : UpdateTracked(m)
    \/ \E m \in Meters : RemoveMeter(m)
    \/ \E m \in Meters : GetPreviousSnapshot(m)
    \/ GetTrackedMeters
    \/ \E m \in Meters : GetMeterStats(m)

\* ---------------------------------------------------------------- startup

\* A message is the sequence of its characters, so that the test
\* "401" in str(e) is the search for a substring.
AuthenticationFailed ==
    <<"A", "u", "t", "h", "e", "n", "t", "i", "c", "a", "t", "i", "o", "n",
      " ", "f", "a", "i", "l", "e", "d">>
AuthorizationFailed ==
    <<"A", "u", "t", "h", "o", "r", "i", "z", "a", "t", "i", "o", "n", " ",
      "f", "a", "i", "l", "e", "d">>
InvalidMerchantToken ==
    <<"A", "u", "t", "h", "e", "n", "t", "i", "c", "a", "t", "i", "o", "n",
      " ", "f", "a", "i", "l", "e", "d", " ", "-", " ", "i", "n", "v", "a",
      "l", "i", "d", " ", "m", "e", "r", "c", "h", "a", "n", "t", " ", "t",
      "o", "k", "e", "n">>
CannotConnect ==
    <<"C", "a", "n", "n", "o", "t", " ", "c", "o", "n", "n", "e", "c", "t",
      " ", "t", "o", " ", "h", "o", "s", "t", " ", "a", "p", "i", ".", "i",
      "b", "i", "l", "i", "k", ".", "c", "o", "m", ":", "4", "4", "3", " ",
      "s", "s", "l", ":", "d", "e", "f", "a", "u", "l", "t">>
ResponseErrorTail ==
    <<",", " ", "m", "e", "s", "s", "a", "g", "e", "=", "'", "'", ",", " ",
      "u", "r", "l", "=", "'", "h", "t", "t", "p", "s", ":", "/", "/", "a",
      "p", "i", ".", "i", "b", "i", "l", "i", "k", ".", "c", "o", "m", "/",
      "m", "e", "r", "c", "h", "a", "n", "t", "/", "m", "e", "t", "e", "r",
      "s", "'">>

\* str(n) of a status code
StrOfStatus(n) ==
    LET digit(d) == <<"0", "1", "2", "3", "4", "5", "6", "7", "8", "9">>[d + 1]
    IN  <<digit(n \div 100), digit((n \div 10) % 10), digit(n % 10)>>

\* sub in s
Contains(s, sub) ==
    \E k \in 0..(Len(s) - Len(sub)) : SubSeq(s, k + 1, k + Len(sub)) = sub

\* APIClient._make_request, from what the server answers: the exception it
\* raises, or the JSON it returns.  A 401 and a 403 are raised as ValueError
\* with a fixed text; any other status from 400 on goes through
\* raise_for_status, whose ClientResponseError prints as the status, the
\* reason and the URL; a failure of the connection is raised as it is.
make_request(reply) ==
    IF reply.status = 0
    THEN [t |-> "raise", exc |-> "ClientConnectorError", msg |-> CannotConnect]
    ELSE IF reply.status = 401
    THEN [t |-> "raise", exc |-> "ValueError", msg |-> AuthenticationFailed]
    ELSE IF reply.status = 403
    THEN [t |-> "raise", exc |-> "ValueError", msg |-> AuthorizationFailed]
    ELSE IF reply.status >= 400
    THEN [t |-> "raise", exc |-> "ClientResponseError",
          msg |-> StrOfStatus(reply.status) \o ResponseErrorTail]
    ELSE reply.json

\* APIClient.get_meters on what _make_request gave: its exception, or the
\* list of the meters (empty unless the JSON has a list under "data")
get_meters(response) ==
    IF Raises(response) THEN response
    ELSE IF IsDict(response) /\ "data" \in DOMAIN response THEN response["data"]
    ELSE <<>>

\* MeterMonitor.initialize, from what the server answers to the probe: the
\* exception it raises (None when it returns) and self.database after it
initialize(reply) ==
    LET probe == get_meters(make_request(reply))
    IN  IF Raises(probe)
            /\ (Contains(StrOf(probe), <<"4", "0", "1">>)
                    \/ Contains(StrOf(probe), <<"4", "0", "3">>))
        THEN [raised |-> [t |-> "raise", exc |-> "ValueError",
                          msg |-> InvalidMerchantToken],
              database |-> None]
        ELSE [raised |-> None, database |-> [t |-> "MeterDatabase"]]

\* what the server answers to the probe: a status (0 for no connection) and
\* the JSON of the body
ProbeReplies ==
    {[status |-> n, json |-> j] :
        n \in {0, 200, 401, 403, 404, 500},
        j \in {[data |-> <<>>], [message |-> "ok"]}}

\* ------------------------------------------------- calculations: the calls

CalcIdle == calc = [fn |-> "none"]

\* the values handed to the delta functions: ints below and above 2^53, an
\* int float() cannot hold, floats, a bool, and values of every other type
DeltaInputs ==
    {PyInt(0), PyInt(5), PyInt(0 - 3), PyFloat(5), PyFloat(2), PyBool(TRUE),
     BigInt(0), BigInt(1), BigInt(2), HugeInt,
     PyStr("5"), PyStr("abc"), None, Dict, List}

\* the deltas and flags of the snapshots handed to detect_anomalies
ReadingDeltas ==
    {None, PyInt(0), PyInt(0 - 70), PyInt(1000), PyInt(0 - 1000), PyInt(1001),
     PyFloat(0 - 1001), PyInt(1990)}
BalanceDeltas == {None, PyFloat(3), PyInt(1000), PyInt(0 - 1001), PyFloat(1001)}
OnlineFlags == {PyBool(TRUE), PyBool(FALSE), None}

DetectSnapshots ==
    {[MeterSnapshot("m1") EXCEPT !.raw_data = Response(PyInt(80), Missing),
                                 !.current_reading_delta = rd,
                                 !.balance_unit_delta = bd,
                                 !.is_online = o,
                                 !.poll_successful = ok] :
        rd \in ReadingDeltas, bd \in BalanceDeltas, o \in OnlineFlags,
        ok \in BOOLEAN}

DetectPrevious ==
    {None} \cup {[MeterSnapshot("m1") EXCEPT !.raw_data = Response(PyInt(150), Missing),
                                           !.is_online = o] : o \in OnlineFlags}

ComputeReadingDelta(current, previous) ==
    /\ calc' = [fn |-> "compute_reading_delta", current |-> current,
                previous |-> previous,
                result |-> compute_reading_delta(current, previous)]
    /\ UNCHANGED <<trackerVars, loopVars>>

ComputeBalanceDelta(current, previous) ==
    /\ calc' = [fn |-> "compute_balance_delta", current |-> current,
                previous |-> previous,
                result |-> compute_balance_delta(current, previous)]
    /\ UNCHANGED <<trackerVars, loopVars>>

DetectAnomalies(snapshot, previous) ==
    /\ calc' = [fn |-> "detect_anomalies", snapshot |-> snapshot,
                previous |-> previous,
                result |-> detect_anomalies(snapshot, previous)]
    /\ UNCHANGED <<trackerVars, loopVars>>

\* await self.initialize()
Initialize(reply) ==
    /\ calc' = [fn |-> "initialize", reply |-> reply, result |-> initialize(reply)]
    /\ UNCHANGED <<trackerVars, loopVars>>

\* the snapshots handed to compute_statistics, with the tick of their
\* local_timestamp: successful ones with and without readings, balances and
\* deltas, one whose reading is 2^1024, an error snapshot, and a failed
\* snapshot that carries values
StatSnapshot(ok, tick, reading, balance, rd, bd) ==
    Put([MeterSnapshot("m1") EXCEPT !.raw_data = Response(reading, balance),
                                    !.current_reading_delta = rd,
                                    !.balance_unit_delta = bd,
                                    !.poll_successful = ok],
        "local_timestamp", tick)

StatSnapshots ==
    {StatSnapshot(TRUE, 1, PyInt(100), PyFloat(5), None, PyInt(5)),
     StatSnapshot(TRUE, 2, PyInt(150), PyInt(8), PyInt(50), PyInt(0 - 3)),
     StatSnapshot(TRUE, 3, Missing, PyStr("n/a"), None, None),
     StatSnapshot(TRUE, 4, PyFloat(80), Missing, PyFloat(0 - 70), PyFloat(3)),
     StatSnapshot(TRUE, 5, HugeInt, PyFloat(5), None, None),
     Put(create_error_snapshot("m1", "Authentication failed"), "local_timestamp", 6),
     StatSnapshot(FALSE, 7, PyInt(999), PyInt(1), PyInt(1000), PyInt(7))}

\* the longest list of snapshots handed to compute_statistics
MaxSnapshots == 3

\* the lists handed to compute_statistics: the history of the meter, which
\* is the list of the call before with one more snapshot, or a new one
StatInputs ==
    LET history == IF calc.fn = "compute_statistics"
                      /\ Len(calc.snapshots) < MaxSnapshots
                   THEN calc.snapshots ELSE <<>>
    IN  {<<>>} \cup {Append(history, s) : s \in StatSnapshots}

ComputeStatistics(snapshots) ==
    /\ calc' = [fn |-> "compute_statistics", snapshots |-> snapshots,
                result |-> compute_statistics("m1", snapshots)]
    /\ UNCHANGED <<trackerVars, loopVars>>

\* the values handed to validate_numeric_field: numbers, booleans, texts
\* that parse (with white space around, with a sign) and that do not, a
\* mapping, a list and None
ValidateInputs ==
    {PyInt(5), PyInt(0 - 3), PyFloat(5), BigInt(1), HugeInt,
     PyBool(TRUE), PyBool(FALSE),
     Text(<<"5">>), Text(<<" ", "4", "2", " ">>), Text(<<"-", "3">>),
     Text(<<"a", "b", "c">>), Text(<<"5", " ", "0">>), Text(<<>>), Text(<<" ">>),
     Dict, List, None}

ValidateNumericField(value) ==
    /\ calc' = [fn |-> "validate_numeric_field", value |-> value,
                result |-> validate_numeric_field(value)]
    /\ UNCHANGED <<trackerVars, loopVars>>

\* the delta logic of main.py 101-109 and of MeterCalculations on one pair
\* of raw values, which is both the reading and the balance of the two
\* payloads: the snapshot as from_api_response builds it against the
\* previous one, as update_meter_state returns it from a tracker that holds
\* the previous one, and the results of the two functions
DeltaCopies(current, previous) ==
    LET previous_snapshot == from_api_response("m1", Response(previous, previous), None)
        constructed == from_api_response("m1", Response(current, current),
                                         previous_snapshot)
        updated == IF Raises(constructed) THEN constructed
                   ELSE update_meter_state([m \in {"m1"} |-> previous_snapshot],
                                           constructed).snapshot
    IN  /\ calc' = [fn |-> "delta_copies", current |-> current,
                    previous |-> previous,
                    constructed |-> constructed, updated |-> updated,
                    reading |-> compute_reading_delta(current, previous),
                    balance |-> compute_balance_delta(current, previous)]
        /\ UNCHANGED <<trackerVars, loopVars>>

CalcNext ==
    \/ \E reply \in ProbeReplies : Initialize(reply)
    \/ \E c \in DeltaInputs, p \in DeltaInputs : DeltaCopies(c, p)
    \/ \E c \in DeltaInputs, p \in DeltaInputs : ComputeReadingDelta(c, p)
    \/ \E c \in DeltaInputs, p \in DeltaInputs : ComputeBalanceDelta(c, p)
    \/ \E s \in DetectSnapshots, p \in DetectPrevious : DetectAnomalies(s, p)
    \/ \E value \in ValidateInputs : ValidateNumericField(value)

StatsNext == \E snapshots \in StatInputs : ComputeStatistics(snapshots)

\* ------------------------------------------------------------ persistence

\* what sqlite3 does with a parameter of the INSERT: it binds None, int,
\* float and str (a bool is an int), refuses any other type, and refuses an
\* int that does not fit 64 bits
bind_parameter(v) ==
    IF v.t \notin {"none", "int", "float", "bool", "str"} THEN ProgrammingError
    ELSE IF v.t = "int" /\ v.h # 0 THEN OverflowError
    ELSE None

\* MeterDatabase.store_snapshot on the table db: the table after the call
\* and what the call raised (None when it returned).  Of to_dict the columns
\* kept are those the snapshot model has.
store_snapshot(db, snapshot) ==
    LET parameters == <<snapshot.meter_name, snapshot.current_reading_delta,
                        snapshot.balance_unit_delta, snapshot.error_message,
                        snapshot.is_online>>
        refused == {k \in 1..Len(parameters) : bind_parameter(parameters[k]) # None}
        first == CHOOSE k \in refused : \A j \in refused : k <= j
    IN  IF refused # {}
        THEN [database |-> db, raised |-> bind_parameter(parameters[first])]
        ELSE [database |->
                Append(db, [meter_id |-> snapshot.meter_id,
                            meter_name |-> snapshot.meter_name,
                            raw_data |-> snapshot.raw_data,
                            current_reading_delta |-> snapshot.current_reading_delta,
                            balance_unit_delta |-> snapshot.balance_unit_delta,
                            poll_successful |-> snapshot.poll_successful,
                            error_message |-> snapshot.error_message,
                            is_online |-> snapshot.is_online]),
              raised |-> None]

\* ------------------------------------------------------------ polling loop

\* the status lines of monitor_meter, from the poll time to the print: None
\* when they run through, the exception otherwise.  float() of a raw value
\* too large raises, and so does the comparison of the balance with a
\* warning_at_unit that is a non-empty string.
log_status(snapshot) ==
    LET current_reading == get_current_reading(snapshot)
        balance_unit == get_balance_unit(snapshot)
        warning == snapshot.warning_at_unit
    IN  IF Raises(current_reading) THEN current_reading
        ELSE IF Raises(balance_unit) THEN balance_unit
        ELSE IF warning.t = "str" /\ warning.s # "" /\ balance_unit # None
             THEN TypeError
        ELSE None

\* an except branch that prints the error and stores nothing
handle_poll_error_unrecorded(db, meter_id, e) == [database |-> db, raised |-> None]

\* the branch "except Exception as e" of monitor_meter: the table after it
\* and what it raised
handle_poll_error(db, meter_id, e) ==
    store_snapshot(db, create_error_snapshot(meter_id, StrOf(e)))

\* one monitoring task per selected meter (start_monitoring)
Tasks == {"t1", "t2"}

\* the selections: two meters, or one meter selected twice
TwoMeters == [i \in Tasks |-> IF i = "t1" THEN "m1" ELSE "m2"]
SameMeter == [i \in Tasks |-> "m1"]

\* the fetches all tasks together may start
MaxPolls == 3

RECURSIVE SumOver(_, _)
SumOver(f, S) ==
    IF S = {} THEN 0
    ELSE LET x == CHOOSE y \in S : TRUE IN f[x] + SumOver(f, S \ {x})

TotalPolls == SumOver(polls, Tasks)

\* what get_meter_status comes back with: a payload, or an exception.  The
\* payloads of m1 are two well-formed ones, one whose name is an object,
\* one whose warning_at_unit is a string, and one that is a list.
FetchError(msg) == [t |-> "raise", exc |-> "ValueError", msg |-> msg]
FetchErrors == {FetchError(msg) : msg \in ErrorMessages}
LoopResponses ==
    {Response(PyInt(100), PyFloat(5)), Response(PyInt(150), PyInt(8)),
     Put(Response(PyInt(80), Missing), "name", Dict),
     Put(Response(PyInt(80), PyFloat(5)), "warning_at_unit", PyStr("10")),
     List}
FetchOutcomes(m) ==
    FetchErrors \cup
        (IF m = "m1" THEN LoopResponses ELSE {Response(PyInt(100), Missing)})

NoFrame == [meter_data |-> None, snapshot |-> None, e |-> None, step |-> "none"]

\* INSERT OR REPLACE INTO system_metadata: the keys of the table after it
store_system_metadata(metadata, key) == metadata \cup {key}

\* MeterMonitor.__init__, and start_monitoring not yet called
MonitorInit(selection) ==
    /\ selected_meters = selection
    /\ main = "start"
    /\ system_metadata = {}
    /\ running = FALSE
    /\ pc = [i \in Tasks |-> "new"]
    /\ must_cancel = [i \in Tasks |-> FALSE]
    /\ executing = "none"
    /\ frame = [i \in Tasks |-> NoFrame]
    /\ polls = [i \in Tasks |-> 0]
    /\ database = <<>>
    /\ journal = <<>>
    /\ last_fetch = [i \in Tasks |-> [poll |-> 0, e |-> None, baseline |-> None]]

LoopInit == MonitorInit(TwoMeters)

\* start_monitoring up to its await: running is set, monitoring_start is
\* stored, one task per selected meter is created, the handler is installed
StartMonitoring ==
    /\ main = "start"
    /\ running' = TRUE
    /\ system_metadata' = store_system_metadata(system_metadata, "monitoring_start")
    /\ pc' = [i \in Tasks |-> "start"]
    /\ main' = "gather"
    /\ UNCHANGED <<trackerVars, calc, must_cancel, executing, frame, polls,
                   database, journal, last_fetch, selected_meters>>

\* a start_monitoring that does not wait for its tasks before the finally
\* clause
GatherDone_without_waiting ==
    /\ main = "gather" /\ executing = "none"
    /\ system_metadata' = store_system_metadata(system_metadata, "monitoring_end")
    /\ main' = "returned"
    /\ UNCHANGED <<trackerVars, calc, running, pc, must_cancel, executing, frame,
                   polls, database, journal, last_fetch, selected_meters>>

\* asyncio.gather(..., return_exceptions=True) is over when every task is,
\* whether it returned or raised; the finally clause stores monitoring_end
GatherDone ==
    /\ main = "gather" /\ executing = "none"
    /\ \A i \in Tasks : pc[i] \in {"done", "failed"}
    /\ system_metadata' = store_system_metadata(system_metadata, "monitoring_end")
    /\ main' = "returned"
    /\ UNCHANGED <<trackerVars, calc, running, pc, must_cancel, executing, frame,
                   polls, database, journal, last_fetch, selected_meters>>

\* the event loop gives a task its first step: monitor_meter up to the loop
StartTask(i) ==
    /\ pc[i] = "start" /\ executing = "none" /\ ~must_cancel[i]
    /\ TotalPolls < MaxPolls
    /\ pc' = [pc EXCEPT ![i] = "loop"]
    /\ executing' = i
    /\ UNCHANGED <<runVars, trackerVars, calc, running, must_cancel, frame, polls,
                   database, journal, last_fetch>>

\* a loop that does not test self.running (while True)
LoopTest_ignores_running(i) ==
    /\ pc[i] = "loop" /\ executing = i
    /\ pc' = [pc EXCEPT ![i] = "fetch"]
    /\ polls' = [polls EXCEPT ![i] = @ + 1]
    /\ executing' = "none"
    /\ UNCHANGED <<runVars, trackerVars, calc, running, must_cancel, frame, database,
                   journal, last_fetch>>

\* while self.running: on to the await of get_meter_status, or out of the
\* loop and of monitor_meter
LoopTest(i) ==
    /\ pc[i] = "loop" /\ executing = i
    /\ IF running
       THEN /\ pc' = [pc EXCEPT ![i] = "fetch"]
            /\ polls' = [polls EXCEPT ![i] = @ + 1]
       ELSE /\ pc' = [pc EXCEPT ![i] = "done"]
            /\ UNCHANGED polls
    /\ executing' = "none"
    /\ UNCHANGED <<runVars, trackerVars, calc, running, must_cancel, frame, database,
                   journal, last_fetch>>

\* the await of get_meter_status ends: with a payload, or with an exception
\* that the branch "except Exception" catches
FetchDone(i, outcome) ==
    /\ pc[i] = "fetch" /\ executing = "none" /\ ~must_cancel[i]
    /\ executing' = i
    /\ last_fetch' = [last_fetch EXCEPT ![i] =
            [poll |-> polls[i],
             e |-> IF Raises(outcome) THEN outcome ELSE None,
             baseline |-> get_previous_snapshot(previous_snapshots, selected_meters[i])]]
    /\ IF Raises(outcome)
       THEN /\ pc' = [pc EXCEPT ![i] = "except"]
            /\ frame' = [frame EXCEPT ![i] = [NoFrame EXCEPT !.e = outcome,
                                                             !.step = "fetch"]]
       ELSE /\ pc' = [pc EXCEPT ![i] = "construct"]
            /\ frame' = [frame EXCEPT ![i] = [NoFrame EXCEPT !.meter_data = outcome]]
    /\ UNCHANGED <<runVars, trackerVars, calc, running, must_cancel, polls, database, journal>>

\* from_api_response against the tracked baseline, then update_meter_state
\* (not reached when from_api_response raised)
Construct(i) ==
    /\ pc[i] = "construct" /\ executing = i
    /\ \E meter_id \in {selected_meters[i]} :
       \E snapshot \in {from_api_response(meter_id, frame[i].meter_data,
                            get_previous_snapshot(previous_snapshots, meter_id))} :
       \E r \in {IF Raises(snapshot)
                  THEN [previous_snapshots |-> previous_snapshots, snapshot |-> snapshot]
                  ELSE update_meter_state(previous_snapshots, snapshot)} :
           IF Raises(snapshot) \/ Raises(r.snapshot)
           THEN /\ pc' = [pc EXCEPT ![i] = "except"]
                /\ frame' = [frame EXCEPT ![i].e =
                                IF Raises(snapshot) THEN snapshot ELSE r.snapshot,
                                          ![i].step = "construct"]
                /\ UNCHANGED <<previous_snapshots, installed>>
           ELSE /\ pc' = [pc EXCEPT ![i] = "store"]
                /\ frame' = [frame EXCEPT ![i].snapshot = r.snapshot]
                /\ previous_snapshots' = r.previous_snapshots
                /\ installed' = [installed EXCEPT ![meter_id] = r.snapshot]
    /\ UNCHANGED <<runVars, call, calc, running, must_cancel, executing, polls, database,
                   journal, last_fetch>>

\* database.store_snapshot(snapshot)
Persist(i) ==
    /\ pc[i] = "store" /\ executing = i
    /\ LET r == store_snapshot(database, frame[i].snapshot)
       IN  /\ database' = r.database
           /\ IF r.raised # None
              THEN /\ pc' = [pc EXCEPT ![i] = "except"]
                   /\ frame' = [frame EXCEPT ![i].e = r.raised, ![i].step = "store"]
                   /\ UNCHANGED journal
              ELSE /\ pc' = [pc EXCEPT ![i] = "log"]
                   /\ journal' = Append(journal, [task |-> i, poll |-> polls[i],
                                                  step |-> "none",
                                                  running |-> running])
                   /\ UNCHANGED frame
    /\ UNCHANGED <<runVars, trackerVars, calc, running, must_cancel, executing, polls,
                   last_fetch>>

\* the status lines, and on to the await of the sleep
LogStatus(i) ==
    /\ pc[i] = "log" /\ executing = i
    /\ LET raised == log_status(frame[i].snapshot)
       IN  IF raised # None
           THEN /\ pc' = [pc EXCEPT ![i] = "except"]
                /\ frame' = [frame EXCEPT ![i].e = raised, ![i].step = "log"]
                /\ UNCHANGED executing
           ELSE /\ pc' = [pc EXCEPT ![i] = "sleep"]
                /\ frame' = [frame EXCEPT ![i] = NoFrame]
                /\ executing' = "none"
    /\ UNCHANGED <<runVars, trackerVars, calc, running, must_cancel, polls, database,
                   journal, last_fetch>>

\* an except branch that goes back to the loop test at once (continue)
HandleError_without_sleep(i) ==
    /\ pc[i] = "except" /\ executing = i
    /\ LET r == handle_poll_error(database, selected_meters[i], frame[i].e)
       IN  /\ database' = r.database
           /\ journal' = IF Len(r.database) > Len(database)
                         THEN Append(journal, [task |-> i, poll |-> polls[i],
                                               step |-> frame[i].step,
                                               running |-> running])
                         ELSE journal
           /\ pc' = [pc EXCEPT ![i] = IF r.raised # None THEN "failed" ELSE "loop"]
    /\ frame' = [frame EXCEPT ![i] = NoFrame]
    /\ UNCHANGED <<runVars, trackerVars, calc, running, must_cancel, executing, polls,
                   last_fetch>>

\* an except branch that stores the error snapshot and leaves the loop
HandleError_ends_task(i) ==
    /\ pc[i] = "except" /\ executing = i
    /\ LET r == handle_poll_error(database, selected_meters[i], frame[i].e)
       IN  /\ database' = r.database
           /\ journal' = IF Len(r.database) > Len(database)
                         THEN Append(journal, [task |-> i, poll |-> polls[i],
                                               step |-> frame[i].step,
                                               running |-> running])
                         ELSE journal
           /\ pc' = [pc EXCEPT ![i] = "failed"]
    /\ frame' = [frame EXCEPT ![i] = NoFrame]
    /\ executing' = "none"
    /\ UNCHANGED <<runVars, trackerVars, calc, running, must_cancel, polls, last_fetch>>

\* except Exception as e: the error snapshot is stored, and on to the await
\* of the sleep; an exception of the store leaves monitor_meter
HandleError(i) ==
    /\ pc[i] = "except" /\ executing = i
    /\ LET r == handle_poll_error(database, selected_meters[i], frame[i].e)
       IN  /\ database' = r.database
           /\ journal' = IF Len(r.database) > Len(database)
                         THEN Append(journal, [task |-> i, poll |-> polls[i],
                                               step |-> frame[i].step,
                                               running |-> running])
                         ELSE journal
           /\ pc' = [pc EXCEPT ![i] = IF r.raised # None THEN "failed" ELSE "sleep"]
    /\ frame' = [frame EXCEPT ![i] = NoFrame]
    /\ executing' = "none"
    /\ UNCHANGED <<runVars, trackerVars, calc, running, must_cancel, polls, last_fetch>>

\* the sleep is over
SleepDone(i) ==
    /\ pc[i] = "sleep" /\ executing = "none" /\ ~must_cancel[i]
    /\ TotalPolls < MaxPolls
    /\ pc' = [pc EXCEPT ![i] = "loop"]
    /\ executing' = i
    /\ UNCHANGED <<runVars, trackerVars, calc, running, must_cancel, frame, polls,
                   database, journal, last_fetch>>

\* the CancelledError is delivered at the await the task stands at (or
\* before its first step): both except branches break out of the loop
Cancelled(i) ==
    /\ pc[i] \in {"start", "fetch", "sleep"} /\ executing = "none" /\ must_cancel[i]
    /\ pc' = [pc EXCEPT ![i] = "done"]
    /\ must_cancel' = [must_cancel EXCEPT ![i] = FALSE]
    /\ UNCHANGED <<runVars, trackerVars, calc, running, executing, frame, polls, database,
                   journal, last_fetch>>

\* signal_handler: it runs between any two steps, also in the middle of the
\* pipeline of a task
Signal ==
    /\ running
    /\ running' = FALSE
    /\ must_cancel' = [i \in Tasks |-> pc[i] \notin {"done", "failed"}]
    /\ UNCHANGED <<runVars, trackerVars, calc, pc, executing, frame, polls, database,
                   journal, last_fetch>>

LoopNext ==
    \/ StartMonitoring
    \/ GatherDone
    \/ \E i \in Tasks : StartTask(i)
    \/ \E i \in Tasks : LoopTest(i)
    \/ \E i \in Tasks : \E outcome \in FetchOutcomes(selected_meters[i]) :
            FetchDone(i, outcome)
    \/ \E i \in Tasks : Construct(i)
    \/ \E i \in Tasks : Persist(i)
    \/ \E i \in Tasks : LogStatus(i)
    \/ \E i \in Tasks : HandleError(i)
    \/ \E i \in Tasks : SleepDone(i)
    \/ \E i \in Tasks : Cancelled(i)
    \/ Signal

Init == TrackerInit /\ CalcIdle /\ LoopInit
Next == TrackerNext
Spec == Init /\ [][Next]_vars

SpecCalc == Init /\ [][CalcNext]_vars

SpecStats == Init /\ [][StatsNext]_vars

SpecLoop == Init /\ [][LoopNext]_vars

\* the steps of monitoring task i
TaskStep(i) ==
    \/ StartTask(i)
    \/ LoopTest(i)
    \/ \E outcome \in FetchOutcomes(selected_meters[i]) : FetchDone(i, outcome)
    \/ Construct(i)
    \/ Persist(i)
    \/ LogStatus(i)
    \/ HandleError(i)
    \/ SleepDone(i)
    \/ Cancelled(i)

\* the event loop runs every callback that is ready, the request of a fetch
\* ends (with a payload, an error or the timeout of the session) and the
\* timer of a sleep expires: a task that can step again and again does step.
\* Nothing makes the signal arrive.
SpecLoopFair ==
    /\ SpecLoop
    /\ \A i \in Tasks : SF_vars(TaskStep(i))
    /\ WF_vars(StartMonitoring \/ GatherDone)

\* the same loop when one meter was selected twice
InitSameMeter == TrackerInit /\ CalcIdle /\ MonitorInit(SameMeter)
SpecSameMeter == InitSameMeter /\ [][LoopNext]_vars


\* ------------------------------------------------------- claims: the tracker

\* the step is an update_meter_state call
IsUpdate(c) == c.op = "update"
\* raw value of a field of a snapshot, None for no snapshot
RawOf(snapshot, key) == IF snapshot = None THEN None ELSE Get(snapshot.raw_data, key)

\* C1: update_meter_state called with a snapshot whose poll_successful is
\* false leaves the tracker mapping as it was, for every meter_id: no entry
\* is replaced, erased or created.
C1_FailedUpdateLeavesTracker ==
    [][(IsUpdate(call') /\ ~call'.arg.poll_successful)
        => previous_snapshots' = previous_snapshots]_vars

\* C1 witness: a failed snapshot was given to update for a meter that has a
\* baseline, while the other meter is untracked
C1_Witness ==
    /\ IsUpdate(call) /\ ~call.arg.poll_successful
    /\ call.arg.meter_id \in DOMAIN previous_snapshots
    /\ DOMAIN previous_snapshots # Meters

\* C2: after any sequence of update and remove calls, previous_of(m) is the
\* snapshot given to the last successful update for m since the last
\* remove(m), absent when there is none, and tracked_ids() is exactly the
\* set of the meters that have one.
C2_TrackerHoldsLastSuccessfulUpdate ==
    /\ \A m \in Meters : get_previous_snapshot(previous_snapshots, m) = installed[m]
    /\ get_tracked_meters(previous_snapshots) = {m \in Meters : installed[m] # None}

\* C2 witness: m2 was just removed, m1 keeps the snapshot of an update that
\* carries a reading delta
C2_Witness ==
    /\ call.op = "remove" /\ call.meter_id = "m2"
    /\ DOMAIN previous_snapshots = {"m1"}
    /\ previous_snapshots["m1"].current_reading_delta = PyInt(50)

\* the delta the claim C3 expects of a successful update: current minus
\* baseline when a baseline is tracked and both values are numeric, absent
\* otherwise
ExpectedDelta(current, baseline, key) ==
    IF baseline # None /\ IsNumeric(RawOf(current, key)) /\ IsNumeric(RawOf(baseline, key))
    THEN PySub(RawOf(current, key), RawOf(baseline, key))
    ELSE None

\* C3 (as claimed): after update(s) with s successful, each delta of s is
\* current minus baseline when the tracker held a baseline for s.meter_id
\* and both values are numeric, and absent otherwise, whatever delta s
\* carried from its construction.
C3_DeltasDependOnlyOnBaseline ==
    [][(IsUpdate(call') /\ call'.arg.poll_successful) =>
        LET baseline == get_previous_snapshot(previous_snapshots, call'.arg.meter_id)
        IN  /\ call'.ret.current_reading_delta =
                    ExpectedDelta(call'.arg, baseline, "current_reading")
            /\ call'.ret.balance_unit_delta =
                    ExpectedDelta(call'.arg, baseline, "balance_unit")]_vars

\* C4: after update(s1) then update(s2) for the same meter_id, both
\* successful, previous_of(meter_id) is s2, and when both readings are
\* numeric s2's reading delta is s2's reading minus s1's (likewise for the
\* balance).
C4_SecondUpdateIsRelativeToFirst ==
    [][(/\ IsUpdate(call) /\ call.arg.poll_successful
        /\ IsUpdate(call') /\ call'.arg.poll_successful
        /\ call'.arg.meter_id = call.arg.meter_id) =>
        LET s1 == call.ret
            s2 == call'.ret
        IN  /\ get_previous_snapshot(previous_snapshots', s2.meter_id) = s2
            /\ \A key \in {"current_reading", "balance_unit"} :
                (IsNumeric(RawOf(s1, key)) /\ IsNumeric(RawOf(s2, key))) =>
                    (IF key = "current_reading" THEN s2.current_reading_delta
                                               ELSE s2.balance_unit_delta)
                        = PySub(RawOf(s2, key), RawOf(s1, key))]_vars

\* C4 witness: the snapshot given carried no delta and came back with a
\* reading delta of -70 and a balance delta: the tracker computed both
\* against the snapshot of an earlier update
C4_Witness ==
    /\ IsUpdate(call) /\ call.arg.poll_successful
    /\ call.arg.current_reading_delta = None /\ call.arg.balance_unit_delta = None
    /\ call.ret.current_reading_delta = PyInt(0 - 70)
    /\ call.ret.balance_unit_delta # None

\* C5: a snapshot with poll_successful false carries no delta: it is built
\* with both deltas absent, no raw fields and an error message, and
\* update_meter_state returns it as it was, whatever baseline is tracked.
C5_ErrorSnapshotCarriesNoDelta ==
    (IsUpdate(call) /\ ~call.arg.poll_successful) =>
        /\ call.arg.current_reading_delta = None
        /\ call.arg.balance_unit_delta = None
        /\ call.arg.raw_data = EmptyDict
        /\ \E e \in ErrorMessages : call.arg.error_message = PyStr(e)
        /\ call.ret = call.arg

\* C5 witness: an error snapshot went through update while its meter had a
\* baseline with numeric raw values
C5_Witness ==
    /\ IsUpdate(call) /\ ~call.arg.poll_successful
    /\ call.arg.meter_id \in DOMAIN previous_snapshots
    /\ IsNumeric(RawOf(previous_snapshots[call.arg.meter_id], "current_reading"))
    /\ IsNumeric(RawOf(previous_snapshots[call.arg.meter_id], "balance_unit"))

\* C8 (as claimed): readings 100, 150, 80 passed through the tracker in
\* sequence get the reading deltas absent, +50, -70, and detect on a
\* successful snapshot with a previous snapshot and a negative reading delta
\* returns a result with non_monotonic_reading reporting the current
\* reading, the previous reading and the delta.
C8_RegressionIsReported ==
    [][(IsUpdate(call') /\ call'.arg.poll_successful) =>
        LET previous == get_previous_snapshot(previous_snapshots, call'.arg.meter_id)
            reading == RawOf(call'.arg, "current_reading")
            delta == call'.ret.current_reading_delta
        IN  /\ (previous = None /\ call'.arg.current_reading_delta = None
                    /\ reading = PyInt(100)) => delta = None
            /\ (RawOf(previous, "current_reading") = PyInt(100)
                    /\ reading = PyInt(150)) => delta = PyInt(50)
            /\ (RawOf(previous, "current_reading") = PyInt(150)
                    /\ reading = PyInt(80)) => delta = PyInt(0 - 70)
            /\ (previous # None /\ delta # None /\ NumLess(delta, 0)) =>
                /\ ~Raises(call'.detected)
                /\ "non_monotonic_reading" \in DOMAIN call'.detected
                /\ call'.detected["non_monotonic_reading"] =
                        [current |-> get_current_reading(call'.ret),
                         previous |-> get_current_reading(previous),
                         delta |-> delta]]_vars

\* ------------------------------------------------- claims: the calculations

IsDeltaCall(c) == c.fn \in {"compute_reading_delta", "compute_balance_delta"}
IsDetectCall(c) == c.fn = "detect_anomalies"

\* x - y as integers, whatever the types
ExactDifference(x, y) == [t |-> "int", h |-> x.h - y.h, b |-> x.b - y.b, u |-> x.u - y.u]

\* |v| <= 2^53: every integer of that range is a double
Within53(v) ==
    /\ v.h = 0
    /\ \/ v.b = 0
       \/ v.b = 1 /\ v.u <= 0
       \/ v.b = 0 - 1 /\ v.u >= 0

\* C7 (as claimed): the delta functions return exactly current minus
\* previous when both inputs are int or float, absent when either input is
\* a string, null, a mapping or a list, and never raise.
C7_DeltaIsExactDifference ==
    IsDeltaCall(calc) =>
        /\ ~Raises(calc.result)
        /\ (IsNumeric(calc.current) /\ IsNumeric(calc.previous)
                /\ ~Raises(PySub(calc.current, calc.previous))) =>
            /\ calc.result # None
            /\ NumEq(calc.result, PySub(calc.current, calc.previous))
        /\ (~IsNumeric(calc.current) \/ ~IsNumeric(calc.previous)) =>
            calc.result = None

\* C7 (amended): the delta functions return the difference of the two
\* inputs converted to double.  That is current minus previous when one of
\* them is a float, or when both are ints that, like their difference, do
\* not exceed 2^53 in magnitude; for larger ints it is that difference up
\* to the rounding of the operands, and absent when an int is too large
\* for a double.  Absent for a string, null, a mapping or a list; no raise.
C7_DeltaIsDoubleDifference ==
    IsDeltaCall(calc) =>
        LET cur == calc.current
            prev == calc.previous
        IN  /\ ~Raises(calc.result)
            /\ (~IsNumeric(cur) \/ ~IsNumeric(prev)) => calc.result = None
            /\ (IsNumeric(cur) /\ IsNumeric(prev)) =>
                IF cur.h # 0 \/ prev.h # 0 THEN calc.result = None
                ELSE /\ calc.result # None
                     /\ calc.result.t = "float"
                     /\ (\/ cur.t = "float" \/ prev.t = "float"
                         \/ (Within53(cur) /\ Within53(prev)
                                /\ Within53(ExactDifference(cur, prev)))) =>
                            NumEq(calc.result, PySub(cur, prev))
                     /\ LET off == ExactDifference(calc.result, ExactDifference(cur, prev))
                        IN  off.h = 0 /\ off.b = 0 /\ off.u \in (0 - 2)..2

\* C7 witness: two ints above 2^53 that differ by one came back as 0.0, and
\* so did not come back as their difference
C7_Witness ==
    /\ IsDeltaCall(calc)
    /\ calc.current = BigInt(1) /\ calc.previous = BigInt(0)
    /\ calc.result = PyFloat(0)

\* C9 (as claimed): detect on a successful snapshot with a previous snapshot
\* returns a result that contains connectivity_change, reporting the from
\* and to states, exactly when the online flag of the snapshot differs from
\* that of the previous one.
C9_ConnectivityChangeIsReported ==
    (IsDetectCall(calc) /\ calc.snapshot.poll_successful /\ calc.previous # None) =>
        /\ ~Raises(calc.result)
        /\ ("connectivity_change" \in DOMAIN calc.result)
                <=> (calc.snapshot.is_online # calc.previous.is_online)
        /\ ("connectivity_change" \in DOMAIN calc.result) =>
                calc.result["connectivity_change"] =
                    [from |-> calc.previous.is_online, to |-> calc.snapshot.is_online]

\* a delta is present and more than 1000 away from zero
BeyondThousand(delta) ==
    /\ delta # None
    /\ \/ delta.h # 0 \/ delta.b # 0
       \/ delta.u > 1000 \/ delta.u < 0 - 1000

\* C10: for a successful snapshot and no previous snapshot, the result of
\* detect contains extreme_reading_delta exactly when the reading delta is
\* present and beyond 1000 in magnitude (1000 and -1000 are not), and
\* extreme_balance_delta exactly when the balance delta is; each entry
\* reports the delta and the threshold 1000, independently of the other.
C10_ExtremeDeltasAreReported ==
    (IsDetectCall(calc) /\ calc.snapshot.poll_successful /\ calc.previous = None) =>
        LET rd == calc.snapshot.current_reading_delta
            bd == calc.snapshot.balance_unit_delta
        IN  /\ ~Raises(calc.result)
            /\ ("extreme_reading_delta" \in DOMAIN calc.result) <=> BeyondThousand(rd)
            /\ ("extreme_balance_delta" \in DOMAIN calc.result) <=> BeyondThousand(bd)
            /\ BeyondThousand(rd) =>
                calc.result["extreme_reading_delta"] = [delta |-> rd, threshold |-> 1000]
            /\ BeyondThousand(bd) =>
                calc.result["extreme_balance_delta"] = [delta |-> bd, threshold |-> 1000]

\* C10 witness: a reading delta of exactly 1000 beside a balance delta of
\* -1001: only the balance is reported
C10_Witness ==
    /\ IsDetectCall(calc) /\ calc.snapshot.poll_successful /\ calc.previous = None
    /\ calc.snapshot.current_reading_delta = PyInt(1000)
    /\ calc.snapshot.balance_unit_delta = PyInt(0 - 1001)
    /\ DOMAIN calc.result = {"extreme_balance_delta"}

\* ------------------------------------------------ claims: the polling loop

\* the indices of the rows that task i wrote in its poll n
RowsOfPoll(i, n) ==
    {k \in 1..Len(database) : journal[k].task = i /\ journal[k].poll = n}

\* the poll of the last fetch of task i is over: the task has left its
\* except branch
PollEnded(i) == polls[i] > last_fetch[i].poll \/ pc[i] # "except"

\* the indices of the rows of meter m before row k
RowsBefore(m, k) == {j \in 1..(k - 1) : database[j].meter_id = m}

\* the last successful row of the meter of row k before it, 0 if none
LastSuccessBefore(k) ==
    LET good == {j \in RowsBefore(database[k].meter_id, k) :
                    database[j].poll_successful}
    IN  IF good = {} THEN 0 ELSE CHOOSE j \in good : \A x \in good : x <= j

\* C6: when the fetch for a meter fails with an error other than the
\* cancellation, the poll persists exactly one error snapshot, which carries
\* the message, the exception does not leave the loop, and the tracker
\* keeps the baseline it held; so a successful row that follows a
\* successful row of its meter with nothing but fetch failures in between
\* (or follows nothing but fetch failures) has its deltas relative to that
\* row (or has none).
C6_FetchFailureIsRecordedAndKeepsBaseline ==
    /\ \A i \in Tasks :
        last_fetch[i].e # None =>
            /\ pc[i] # "failed"
            /\ get_previous_snapshot(previous_snapshots, selected_meters[i])
                    = last_fetch[i].baseline
            /\ ~PollEnded(i) => RowsOfPoll(i, last_fetch[i].poll) = {}
            /\ PollEnded(i) =>
                \E k \in 1..Len(database) :
                    /\ RowsOfPoll(i, last_fetch[i].poll) = {k}
                    /\ database[k].meter_id = selected_meters[i]
                    /\ ~database[k].poll_successful
                    /\ database[k].error_message = PyStr(last_fetch[i].e.msg)
                    /\ database[k].current_reading_delta = None
                    /\ database[k].balance_unit_delta = None
    /\ \A k \in 1..Len(database) :
        LET last == LastSuccessBefore(k)
            between == {j \in RowsBefore(database[k].meter_id, k) : j > last}
            baseline == IF last = 0 THEN None ELSE database[last]
        IN  (database[k].poll_successful
                /\ \A j \in between : journal[j].step = "fetch") =>
                /\ database[k].current_reading_delta =
                        ExpectedDelta(database[k], baseline, "current_reading")
                /\ database[k].balance_unit_delta =
                        ExpectedDelta(database[k], baseline, "balance_unit")

\* C6 witness: meter m1 was polled three times: reading 100, a failed fetch,
\* reading 150, and the third row carries the delta +50 against the first
C6_Witness ==
    \E a, b, c \in 1..Len(database) :
        /\ a < b /\ b < c
        /\ \A k \in {a, b, c} : database[k].meter_id = "m1"
        /\ database[a].poll_successful /\ database[c].poll_successful
        /\ ~database[b].poll_successful /\ journal[b].step = "fetch"
        /\ LastSuccessBefore(c) = a
        /\ database[c].current_reading_delta = PyInt(50)
        /\ pc["t1"] = "sleep"

\* C11: detect on a snapshot with poll_successful false returns an empty
\* result, whatever its deltas and flags are, with or without a previous
\* snapshot.
C11_FailedPollHasNoAnomalies ==
    (IsDetectCall(calc) /\ ~calc.snapshot.poll_successful) =>
        calc.result = EmptyDict

\* C11 witness: a failed snapshot with a reading delta of -1001.0, a balance
\* delta of 1001.0 and an online flag that differs from that of the previous
\* snapshot went through detect
C11_Witness ==
    /\ IsDetectCall(calc) /\ ~calc.snapshot.poll_successful
    /\ calc.snapshot.current_reading_delta = PyFloat(0 - 1001)
    /\ calc.snapshot.balance_unit_delta = PyFloat(1001)
    /\ calc.previous # None
    /\ calc.previous.is_online # calc.snapshot.is_online

\* C12: detect with no previous snapshot returns neither
\* connectivity_change nor non_monotonic_reading, for any snapshot, also one
\* with a negative reading delta.
C12_NoBaselineNoComparison ==
    (IsDetectCall(calc) /\ calc.previous = None) =>
        /\ "connectivity_change" \notin DOMAIN calc.result
        /\ "non_monotonic_reading" \notin DOMAIN calc.result

\* C12 witness: a successful snapshot with a reading delta of -1001.0 and no
\* previous snapshot: the result holds the extreme delta and nothing else
C12_Witness ==
    /\ IsDetectCall(calc) /\ calc.previous = None
    /\ calc.snapshot.poll_successful
    /\ calc.snapshot.current_reading_delta = PyFloat(0 - 1001)
    /\ DOMAIN calc.result = {"extreme_reading_delta"}

\* C13 (as claimed): no tracker operation raises in any state of the
\* tracker: update, get_previous_snapshot, remove, get_tracked_meters and
\* get_meter_stats return normally for tracked and untracked meters, and
\* the lookup of an untracked meter returns None.
C13_TrackerNeverRaises ==
    /\ call.op \in {"update", "previous", "stats"} => ~Raises(call.ret)
    /\ call.op \in {"previous", "stats"} =>
            (call.meter_id \notin DOMAIN previous_snapshots => call.ret = None)
    /\ call.op = "previous" =>
            (call.meter_id \in DOMAIN previous_snapshots =>
                call.ret = previous_snapshots[call.meter_id])
    /\ call.op = "tracked" => call.ret = DOMAIN previous_snapshots

\* ---------------------------------------------------- claims: the startup

\* C14 (as claimed): when the probe of initialize fails with an
\* authentication failure (the API answers 401 or 403) initialize raises,
\* and when it fails with any other error (404, 500, no connection)
\* initialize returns and the database is there.
C14_OnlyAuthenticationFailureAborts ==
    calc.fn = "initialize" =>
        /\ calc.reply.status \in {401, 403} => calc.result.raised # None
        /\ calc.reply.status \notin {401, 403} =>
                (calc.result.raised = None /\ calc.result.database # None)

\* ---------------------------------------- claims: the schedule of the polls

\* the places of monitor_meter a task is at while a poll is under way
InPoll == {"fetch", "construct", "store", "log", "except"}

\* the polls of the rows of task i, in the order of the table
PollsOfRows(i) ==
    LET rows == SelectSeq(journal, LAMBDA r : r.task = i)
    IN  [k \in 1..Len(rows) |-> rows[k].poll]

\* C15: the polls of one task are strictly sequential.  A fetch starts only
\* from the loop test, which a task reaches only from its start or from the
\* end of the sleep, and the sleep is entered only from the end of the
\* pipeline or of the except branch; when the fetch of poll n + 1 starts,
\* every earlier poll of the task has persisted its record; a record is
\* written for the poll under way; so the rows of one task are in poll
\* order.
C15_PollsOfOneTaskAreSequential ==
    [][\A i \in Tasks :
        /\ polls'[i] # polls[i] =>
                /\ polls'[i] = polls[i] + 1
                /\ pc[i] = "loop" /\ pc'[i] = "fetch"
                /\ frame[i] = NoFrame
                /\ \A n \in 1..polls[i] : RowsOfPoll(i, n) # {}
        /\ (pc'[i] = "fetch" /\ pc[i] # "fetch") => polls'[i] = polls[i] + 1
        /\ (pc'[i] = "loop" /\ pc[i] # "loop") => pc[i] \in {"start", "sleep"}
        /\ (pc'[i] = "sleep" /\ pc[i] # "sleep") => pc[i] \in {"log", "except"}
        /\ (pc'[i] \in InPoll /\ pc[i] \notin InPoll) => pc'[i] = "fetch"
        /\ PollsOfRows(i)' # PollsOfRows(i) =>
                /\ pc[i] \in {"store", "except"}
                /\ PollsOfRows(i)' = Append(PollsOfRows(i), polls[i])
        /\ \A j, k \in 1..Len(PollsOfRows(i)') :
                j < k => PollsOfRows(i)'[j] <= PollsOfRows(i)'[k]
      ]_vars

\* C15 witness: task t1 sleeps after its second poll, having persisted a
\* record of its first poll and an error record of its second, with a
\* record of task t2 in between
C15_Witness ==
    /\ pc["t1"] = "sleep" /\ polls["t1"] = 2
    /\ PollsOfRows("t1") = <<1, 2>>
    /\ Len(journal) = 3 /\ journal[2].task = "t2"
    /\ database[1].poll_successful /\ ~database[3].poll_successful

\* C16 (as claimed): once the shutdown signal has been handled, no task
\* persists a further record, success or error, and no task starts another
\* fetch, wherever the signal found the tasks: fetching, sleeping or in the
\* middle of the pipeline.
C16_NothingAfterSignal ==
    [][~running => (database' = database /\ polls' = polls)]_vars

\* C16 (amended): once the shutdown signal has been handled, no task starts
\* another fetch; a task that the signal found not yet started, fetching or
\* sleeping persists nothing more and can only end; the one task that the
\* signal found in the middle of its pipeline runs it to the sleep, and only
\* that task still appends a record, for the poll under way.
C16_OnlyThePollUnderWayIsFinished ==
    [][~running =>
        /\ polls' = polls
        /\ \A i \in Tasks :
            pc[i] \in {"start", "fetch", "sleep", "done", "failed"} =>
                /\ pc'[i] \in {pc[i], "done"}
                /\ PollsOfRows(i)' = PollsOfRows(i)
        /\ database' # database =>
            \E i \in Tasks :
                /\ executing = i /\ must_cancel[i]
                /\ pc[i] \in {"store", "except"}
                /\ Len(database') = Len(database) + 1
                /\ SubSeq(database', 1, Len(database)) = database
                /\ database'[Len(database')].meter_id = selected_meters[i]
                /\ journal' = Append(journal, [task |-> i, poll |-> polls[i],
                                               step |-> frame[i].step,
                                               running |-> FALSE])
      ]_vars

\* C16 witness: the signal came while task t1 was between the end of its
\* fetch and the store, and while task t2 was fetching: t1 has persisted its
\* snapshot after the signal and has ended at its sleep, t2 has ended
\* without a record
C16_Witness ==
    /\ ~running
    /\ pc["t1"] = "done" /\ pc["t2"] = "done"
    /\ polls = [i \in Tasks |-> 1]
    /\ last_fetch["t1"].poll = 1 /\ last_fetch["t2"].poll = 0
    /\ Len(database) = 1 /\ ~journal[1].running
    /\ database[1].meter_id = "m1" /\ database[1].poll_successful

\* C17: after a poll of a task has failed (the task is in its except
\* branch, whatever step of the poll raised), the task starts another fetch,
\* unless the shutdown signal arrives; within the number of fetches the
\* model follows.
C17_FailedPollIsFollowedByAnotherPoll ==
    \A i \in Tasks :
        (pc[i] = "except" /\ running)
            ~> (pc[i] = "fetch" \/ ~running \/ TotalPolls >= MaxPolls)

\* C17 witness: no signal has arrived, the first poll of task t1 failed at
\* the fetch and its second poll failed after the store, and the task is in
\* its third fetch
C17_Witness ==
    /\ running /\ pc["t1"] = "fetch" /\ polls["t1"] = 3
    /\ Len(journal) = 3 /\ \A k \in 1..3 : journal[k].task = "t1"
    /\ journal[1].step = "fetch" /\ journal[1].poll = 1
    /\ journal[2].step = "none" /\ journal[3].step = "log" /\ journal[3].poll = 2

\* ---------------------------------------------------- claims: the statistics

IsStatsCall(c) == c.fn = "compute_statistics"

\* the positions of the successful snapshots of a list
Good(snapshots) == {k \in 1..Len(snapshots) : snapshots[k].poll_successful}

\* the float v is the quotient num / den
IsQuotient(v, num, den) ==
    /\ v.t = "float"
    /\ IF "num" \in DOMAIN v THEN v.num * den = num * v.den
       ELSE v.h = 0 /\ v.b = 0 /\ v.u * den = num

\* the raw values under key of the successful snapshots that are numbers,
\* as floats
NumericValues(snapshots, key) ==
    {ToFloat(snapshots[k].raw_data[key]) :
        k \in {j \in Good(snapshots) : IsNumeric(Get(snapshots[j].raw_data, key))}}

\* least and most are the smallest and the largest of the numbers in S
AreBounds(least, most, S) ==
    /\ least \in S /\ most \in S
    /\ \A v \in S : ~Less(v, least) /\ ~Less(most, v)

\* C18: compute_statistics returns the mapping with the error "No snapshots
\* provided" for an empty list and the mapping with the error "No
\* successful snapshots" for a list without a successful snapshot, and
\* raises in neither case; for a list with a successful snapshot the
\* mapping it returns has the length of the list, the count of the
\* successful snapshots, their quotient as success rate, and reading and
\* balance statistics whose min and max are the smallest and the largest
\* numeric value of the successful snapshots only (no statistics when they
\* have none).
C18_NoDataResultAndSuccessfulOnly ==
    IsStatsCall(calc) =>
        LET snapshots == calc.snapshots
            result == calc.result
            good == Good(snapshots)
        IN  /\ snapshots = <<>> =>
                result = [meter_id |-> "m1", error |-> PyStr("No snapshots provided")]
            /\ (snapshots # <<>> /\ good = {}) =>
                result = [meter_id |-> "m1", error |-> PyStr("No successful snapshots")]
            /\ (good # {} /\ ~Raises(result)) =>
                /\ "error" \notin DOMAIN result
                /\ result.total_snapshots = PyInt(Len(snapshots))
                /\ result.successful_snapshots = PyInt(Cardinality(good))
                /\ IsQuotient(result.success_rate, Cardinality(good), Len(snapshots))
                /\ \A key \in {"current_reading", "balance_unit"} :
                    LET under == IF key = "current_reading" THEN "reading_stats"
                                 ELSE "balance_stats"
                        values == NumericValues(snapshots, key)
                    IN  IF values = {} THEN under \notin DOMAIN result
                        ELSE /\ under \in DOMAIN result
                             /\ AreBounds(result[under].min, result[under].max, values)

\* C18 witness: a failed snapshot that carries the reading 999 and the
\* balance 1, then successful snapshots with the readings 100 and 150: the
\* success rate is 2/3, the largest reading 150.0 and the smallest balance 5.0
C18_Witness ==
    /\ IsStatsCall(calc)
    /\ calc.snapshots =
            <<StatSnapshot(FALSE, 7, PyInt(999), PyInt(1), PyInt(1000), PyInt(7)),
              StatSnapshot(TRUE, 1, PyInt(100), PyFloat(5), None, PyInt(5)),
              StatSnapshot(TRUE, 2, PyInt(150), PyInt(8), PyInt(50), PyInt(0 - 3))>>
    /\ calc.result.success_rate = [t |-> "float", num |-> 2, den |-> 3]
    /\ calc.result.reading_stats.max = PyFloat(150)
    /\ calc.result.balance_stats.min = PyFloat(5)

\* the deltas under field of the successful snapshots that are present, in
\* the order of the list
PresentDeltas(snapshots, field) ==
    LET kept == SelectSeq(snapshots,
                    LAMBDA s : s.poll_successful /\ s[field] # None)
    IN  [k \in 1..Len(kept) |-> kept[k][field]]

RECURSIVE Total(_)
Total(deltas) == IF deltas = <<>> THEN 0 ELSE deltas[1].u + Total(Tail(deltas))

\* C19: in the mapping compute_statistics returns, the statistics of each
\* delta are those of the deltas of the successful snapshots that are
\* present: total_change is their sum, average_change their sum over their
\* number, min_delta and max_delta the smallest and the largest of them, and
\* when there is none the statistics of that delta are left out.
C19_DeltaStatisticsSkipAbsentDeltas ==
    (IsStatsCall(calc) /\ Good(calc.snapshots) # {} /\ ~Raises(calc.result)) =>
        \A field \in {"current_reading_delta", "balance_unit_delta"} :
            LET under == IF field = "current_reading_delta" THEN "reading_delta_stats"
                         ELSE "balance_delta_stats"
                deltas == PresentDeltas(calc.snapshots, field)
                result == calc.result
            IN  IF deltas = <<>> THEN under \notin DOMAIN result
                ELSE /\ under \in DOMAIN result
                     /\ NumEq(result[under].total_change, PyInt(Total(deltas)))
                     /\ IsQuotient(result[under].average_change, Total(deltas),
                                   Len(deltas))
                     /\ AreBounds(result[under].min_delta, result[under].max_delta,
                                  {deltas[k] : k \in 1..Len(deltas)})

\* C19 witness: three successful snapshots with the balance deltas 5, -3
\* and none: total_change is 2 and average_change 1.0
C19_Witness ==
    /\ IsStatsCall(calc)
    /\ calc.snapshots =
            <<StatSnapshot(TRUE, 1, PyInt(100), PyFloat(5), None, PyInt(5)),
              StatSnapshot(TRUE, 2, PyInt(150), PyInt(8), PyInt(50), PyInt(0 - 3)),
              StatSnapshot(TRUE, 3, Missing, PyStr("n/a"), None, None)>>
    /\ calc.result.balance_delta_stats.total_change = PyInt(2)
    /\ calc.result.balance_delta_stats.average_change = PyFloat(1)
    /\ calc.result.balance_delta_stats.min_delta = PyInt(0 - 3)

\* the value under current of the statistics under key, None without them
CurrentOf(result, under) ==
    IF under \in DOMAIN result THEN result[under].current ELSE None

\* C20 (as claimed): in the mapping compute_statistics returns, the current
\* reading and the current balance are those of the last successful
\* snapshot of the list, and are absent when that snapshot has no numeric
\* reading or balance.
C20_CurrentIsOfLastSuccessfulSnapshot ==
    (IsStatsCall(calc) /\ Good(calc.snapshots) # {} /\ ~Raises(calc.result)) =>
        LET good == Good(calc.snapshots)
            last == calc.snapshots[CHOOSE k \in good : \A j \in good : j <= k]
        IN  /\ CurrentOf(calc.result, "reading_stats") = get_current_reading(last)
            /\ CurrentOf(calc.result, "balance_stats") = get_balance_unit(last)

\* ---------------------------------------------------- claims: the validation

\* C21 (as claimed): validate_numeric_field returns the value (as a float)
\* for an int and for a float, the parsed number for a text that parses
\* once its white space is trimmed, and None, without raising, for
\* everything else: a text that is no number, a boolean, a mapping, a list
\* and None.
C21_ValidateAcceptsNumbersAndNumericText ==
    calc.fn = "validate_numeric_field" =>
        LET value == calc.value
            result == calc.result
        IN  /\ ~Raises(result)
            /\ value.t \in {"int", "float"} => result = ToFloat(value)
            /\ value.t = "str" =>
                    result = (IF Raises(float_of_text(strip(value.s))) THEN None
                              ELSE float_of_text(strip(value.s)))
            /\ value.t \notin {"int", "float", "str"} => result = None

\* ------------------------------------------------ claims: the tracker, again

\* C22: remove_meter(m) is idempotent and local.  After it the lookup of m
\* gives None; for an untracked m it changes nothing; the entries of all
\* other meters are as before; and removing m again, at once or as the next
\* call, leaves the tracker as the first removal left it.
C22_RemoveIsIdempotentAndLocal ==
    [][call'.op = "remove" =>
        LET m == call'.meter_id
        IN  /\ get_previous_snapshot(previous_snapshots', m) = None
            /\ m \notin DOMAIN previous_snapshots =>
                    previous_snapshots' = previous_snapshots
            /\ \A k \in Meters \ {m} :
                    /\ k \in DOMAIN previous_snapshots' <=> k \in DOMAIN previous_snapshots
                    /\ Get(previous_snapshots', k) = Get(previous_snapshots, k)
            /\ remove_meter(previous_snapshots', m) = previous_snapshots'
            /\ (call.op = "remove" /\ call.meter_id = m) =>
                    previous_snapshots' = previous_snapshots
      ]_vars

\* C22 witness: m1 was just removed and is untracked, while m2 keeps the
\* snapshot it had
C22_Witness ==
    /\ call.op = "remove" /\ call.meter_id = "m1"
    /\ DOMAIN previous_snapshots = {"m2"}
    /\ installed["m2"] = previous_snapshots["m2"]

\* the fields of a snapshot but its two deltas
OtherFields(snapshot) ==
    DOMAIN snapshot \ {"current_reading_delta", "balance_unit_delta"}

\* C23 (as claimed): update_meter_state never changes raw_data of the
\* snapshot it is given, nor any of its fields but the two deltas, and
\* never changes any field, raw_data or delta, of the snapshot that was the
\* tracked baseline before the call.
C23_UpdateWritesOnlyTheNewDeltas ==
    (IsUpdate(call) /\ ~Raises(call.ret)) =>
        /\ call.ret.raw_data = call.arg.raw_data
        /\ \A f \in OtherFields(call.arg) : call.ret[f] = call.arg[f]
        /\ ~call.baseline_written

\* C30 (as claimed): update_meter_state called again with the successful
\* snapshot the tracker holds (the object an earlier call returned) leaves
\* the deltas of that snapshot and the tracked baseline as they were.
C30_SecondUpdateOfSameSnapshotChangesNothing ==
    (IsUpdate(call) /\ call.same_object /\ ~Raises(call.ret)) =>
        /\ call.ret.current_reading_delta = call.arg.current_reading_delta
        /\ call.ret.balance_unit_delta = call.arg.balance_unit_delta
        /\ get_previous_snapshot(previous_snapshots, call.arg.meter_id) = call.arg

\* ---------------------------------------------------------------------
\* C24: tracker updates of concurrent tasks, also of two tasks that poll
\* the same meter.  The baseline changes only in the step of a task that
\* constructs a successful snapshot and updates the tracker with it; that
\* step installs the snapshot built from the payload the task fetched under
\* the meter of the task, leaves every other entry alone, and the deltas
\* of the installed snapshot are those against the baseline the tracker held
\* when the step began (absent when there was none or a value is not a
\* number).
Installs(i) == pc[i] = "construct" /\ pc'[i] = "store"

C24_InstallIsRelativeToTheBaselineJustBefore ==
    [][/\ previous_snapshots' # previous_snapshots => \E i \in Tasks : Installs(i)
       /\ \A i \in Tasks :
            Installs(i) =>
                LET m == selected_meters[i]
                    baseline == Get(previous_snapshots, m)
                    snapshot == Get(previous_snapshots', m)
                IN  /\ snapshot # None
                    /\ snapshot = frame'[i].snapshot
                    /\ snapshot.meter_id = m
                    /\ snapshot.raw_data = frame[i].meter_data
                    /\ snapshot.current_reading_delta =
                            ExpectedDelta(snapshot, baseline, "current_reading")
                    /\ snapshot.balance_unit_delta =
                            ExpectedDelta(snapshot, baseline, "balance_unit")
                    /\ \A other \in Meters \ {m} :
                            Get(previous_snapshots', other) = Get(previous_snapshots, other)
      ]_vars

\* both tasks poll m1: t2 reads 100, then t1, whose fetch ended later, reads
\* 150 and its snapshot carries the delta against the snapshot of t2
C24_Witness ==
    /\ selected_meters = SameMeter
    /\ Len(database) = 2
    /\ journal[1].task = "t2" /\ journal[2].task = "t1"
    /\ journal[1].poll = 1 /\ journal[2].poll = 1
    /\ database[1].poll_successful /\ database[2].poll_successful
    /\ database[1].current_reading_delta = None
    /\ database[2].current_reading_delta = PyInt(50)
    /\ previous_snapshots["m1"].current_reading_delta = PyInt(50)
    /\ pc["t1"] = "sleep" /\ pc["t2"] = "sleep"


\* ---------------------------------------------------------------------
\* C25: every poll that is over and was not cancelled at its fetch has
\* exactly one row in the table, and the rows already in the table stay as
\* they are: the table only grows at its end.
PollIsOver(i, n) ==
    \/ n < polls[i]
    \/ n = polls[i] /\ last_fetch[i].poll = n /\ pc[i] \notin InPoll

C25_OneRecordPerPoll ==
    [][/\ Len(database') >= Len(database)
       /\ SubSeq(database', 1, Len(database)) = database
       /\ \A i \in Tasks : \A n \in 1..polls'[i] :
            PollIsOver(i, n)' => Cardinality(RowsOfPoll(i, n)') = 1
      ]_vars


\* ---------------------------------------------------------------------
\* C26: a poll that persists an error row for its meter leaves the baseline
\* of the meter as it was when the fetch of the poll ended, whichever step
\* of the pipeline failed: when the except branch writes its row, the
\* tracker holds for the meter what it held before the pipeline began.
C26_ErrorRecordMeansBaselineKept ==
    [][\A i \in Tasks :
        (pc[i] = "except" /\ Len(database') > Len(database)) =>
            /\ ~database'[Len(database')].poll_successful
            /\ database'[Len(database')].meter_id = selected_meters[i]
            /\ Get(previous_snapshots', selected_meters[i]) = last_fetch[i].baseline
      ]_vars


\* ---------------------------------------------------------------------
\* C27: detect_anomalies of a successful snapshot returns a mapping and
\* raises nothing, whether the previous snapshot is present or absent and
\* whatever the online flags and the deltas of the two snapshots.
C27_DetectAnomaliesNeverRaises ==
    (IsDetectCall(calc) /\ calc.snapshot.poll_successful) =>
        ~Raises(calc.result)


\* ---------------------------------------------------------------------
\* C28: shutdown.  Once the handler of the signal has run, every monitoring
\* task leaves its loop and start_monitoring returns; monitoring_end is in
\* the table of metadata only when every task has stopped, and a snapshot
\* row is in the table only when monitoring_start is.
Stopped(i) == pc[i] \in {"done", "failed"}

C28_ShutdownStopsEveryTaskBeforeTheEnd ==
    /\ []("monitoring_end" \in system_metadata =>
            (main = "returned" /\ \A i \in Tasks : Stopped(i)))
    /\ [](database # <<>> => "monitoring_start" \in system_metadata)
    /\ (main = "gather" /\ ~running) ~>
            (main = "returned" /\ \A i \in Tasks : Stopped(i))

\* the signal came while a task was in its pipeline: the row of that poll
\* was written after it, both tasks left their loops, and start_monitoring
\* returned and stored monitoring_end
C28_Witness ==
    /\ main = "returned" /\ ~running
    /\ system_metadata = {"monitoring_start", "monitoring_end"}
    /\ \A i \in Tasks : pc[i] = "done"
    /\ Len(journal) = 2
    /\ journal[1].running /\ ~journal[2].running


\* ---------------------------------------------------------------------
\* C29: the three copies of the delta logic agree on every pair of raw
\* values: the delta set at construction against a previous snapshot, the
\* delta update_meter_state computes against the same previous snapshot and
\* the result of compute_reading_delta (compute_balance_delta) are all
\* absent or all the same number, and none of the three raises.
SameDelta(x, y, z) ==
    IF x = None \/ y = None \/ z = None
    THEN x = None /\ y = None /\ z = None
    ELSE NumEq(x, y) /\ NumEq(y, z)

C29_DeltaCopiesAgree ==
    calc.fn = "delta_copies" =>
        /\ ~Raises(calc.constructed)
        /\ ~Raises(calc.updated)
        /\ SameDelta(calc.constructed.current_reading_delta,
                     calc.updated.current_reading_delta, calc.reading)
        /\ SameDelta(calc.constructed.balance_unit_delta,
                     calc.updated.balance_unit_delta, calc.balance)


====
